---------------------------- MODULE Spec2Model ----------------------------
(***************************************************************************)
(* Model of src/app.py: the label/value classification engine of the PDF   *)
(* report generator (canonical_key, extract_products_and_rest,             *)
(* build_lookup, pop_first_matching, make_inline_group_block and the main  *)
(* per-record loop).                                                       *)
(*                                                                         *)
(* Strings.  A Python str is modelled as a sequence of atoms.  An atom is  *)
(* one character (" ", "\t", ":", "?", a digit, ...) or a run of           *)
(* characters that holds no whitespace, no ":" and no "?" and is written   *)
(* as one symbol ("Produto", "(ml/100kg)").  Concatenating the atoms gives *)
(* the Python string.  lower() and strip_accents() act atom by atom.       *)
(*                                                                         *)
(* Values.  A Python value (a cell, the value of a pair) is a record       *)
(* [t, s]: t is "none" (None), "nan" (float NaN), "img" (a reportlab       *)
(* Image), "float" (a float, s its digits) or "str" (s its atoms).         *)
(***************************************************************************)
EXTENDS Naturals, Integers, Sequences, FiniteSets, TLC

VARIABLES
    \* ---- canonical_key experiments (SpecCanon)
    label,          \* the label string handed to canonical_key
    key,            \* canonical_key(label)
    rekey,          \* canonical_key(canonical_key(label))
    key_q,          \* canonical_key(label + "?")
    key_c,          \* canonical_key(label + ":")
    cpc,            \* position of the canonical_key experiment
    \* ---- one record of the main loop (Spec, SpecExtract)
    pairs,          \* app.py:448 pairs, the (q, a) list of the record
    max_products,   \* app.py:221 parameter max_products
    products,       \* app.py:229 products, after the sort of line 282
    rest,           \* app.py:230 rest (rest_pairs of line 488)
    used_idx,       \* app.py:232 used_idx, positions taken by product groups
    groups_log,     \* history: one entry per processed anchor
    index,          \* app.py:344 index of build_lookup (position -> pair)
    pockets,        \* app.py:345 pockets of build_lookup (key -> positions)
    story,          \* app.py:494 story, the named-group blocks appended so far
    calls,          \* history: one entry per call of pop_first_matching
    g,              \* number of GROUPS entries already rendered
    remaining_pairs,\* app.py:506 remaining_pairs
    pc,             \* position in the body of the main loop
    \* ---- the batch over the records (SpecBatch)
    rows,           \* the data rows of df_raw (app.py:439)
    done_rows,      \* number of rows already rendered
    files,          \* the output directory: file name -> row that wrote it last
    generated_files,\* app.py:433 generated_files
    archive,        \* the members of the zip archive (app.py:535-537)
    bpc,            \* position of the batch
    \* ---- the label/value scan of one row (SpecScan)
    row_full,       \* app.py:442 row_full, the cells of the row
    row_data,       \* app.py:455 row_data, the cells from column J on
    scan_i,         \* app.py:458 i, as a place from 1 (i + 1)
    scan_log,       \* history: per pair of the scan, the places it read
    spc             \* position of the scan

canonVars == <<label, key, rekey, key_q, key_c, cpc>>
recordVars == <<pairs, max_products, products, rest, used_idx, groups_log,
                index, pockets, story, calls, g, remaining_pairs, pc>>
batchVars == <<rows, done_rows, files, generated_files, archive, bpc>>
scanVars == <<row_full, row_data, scan_i, scan_log, spc>>
vars == <<canonVars, recordVars, batchVars, scanVars>>

(***************************************************************************)
(* Bounds of the model.                                                    *)
(***************************************************************************)
MaxLabelLen == 4
MaxPairs == 3
MaxRows == 3
MaxCells == 4
SheetColumns == 10

(***************************************************************************)
(* Generic helpers.                                                        *)
(***************************************************************************)
SeqsUpTo(S, n) == UNION {[1..k -> S] : k \in 0..n}

Range(f) == {f[i] : i \in DOMAIN f}

(***************************************************************************)
(* Python str methods on atom sequences.                                   *)
(***************************************************************************)
\* Characters str.strip() and the regex class \s treat as whitespace.
Whitespace == {" ", "\t", "\n", "\r"}

RECURSIVE lstrip(_)
lstrip(s) ==
    IF s # <<>> /\ Head(s) \in Whitespace THEN lstrip(Tail(s)) ELSE s

RECURSIVE rstrip(_)
rstrip(s) ==
    IF s # <<>> /\ s[Len(s)] \in Whitespace
    THEN rstrip(SubSeq(s, 1, Len(s) - 1))
    ELSE s

\* str.strip()
strip(s) == rstrip(lstrip(s))

\* str.lower() of one atom.
lower_atom(c) ==
    CASE c = "A" -> "a"
      [] c = "Assinatura" -> "assinatura"
      [] c = "Foto" -> "foto"
      [] c = "HTTP" -> "http"
      [] c = "Produto" -> "produto"
      [] c = "PRODUTO" -> "produto"
      [] c = "Lote" -> "lote"
      [] c = "Dose" -> "dose"
      [] c = "Utilizado" -> "utilizado"
      [] c = "Data" -> "data"
      [] c = "Máquina" -> "máquina"
      [] c = "TS" -> "ts"
      [] c = "Supervisor" -> "supervisor"
      [] c = "OTM" -> "otm"
      [] c = "Canal" -> "canal"
      [] c = "Cidade" -> "cidade"
      [] c = "Município" -> "município"
      [] c = "UF" -> "uf"
      [] c = "Estado" -> "estado"
      [] c = "Consultor" -> "consultor"
      [] c = "Responsável" -> "responsável"
      [] c = "Empresa" -> "empresa"
      [] c = "Contratante" -> "contratante"
      [] c = "Produtor" -> "produtor"
      [] c = "Telefone" -> "telefone"
      [] c = "Cultura" -> "cultura"
      [] c = "Variedade" -> "variedade"
      [] c = "Tipo" -> "tipo"
      [] c = "Peso" -> "peso"
      [] c = "Total" -> "total"
      [] c = "Usuário" -> "usuário"
      [] c = "Obs" -> "obs"
      [] c = "N/A" -> "n/a"
      [] c = "NA" -> "na"
      [] c = "NULL" -> "null"
      [] c = "None" -> "none"
      [] c = "X" -> "x"
      [] OTHER -> c

\* str.lower()
lower(s) == [i \in DOMAIN s |-> lower_atom(s[i])]

\* strip_accents of one atom: NFD decomposition, combining marks dropped.
strip_accents_atom(c) ==
    CASE c = "á" -> "a"
      [] c = "máquina" -> "maquina"
      [] c = "aplicação" -> "aplicacao"
      [] c = "município" -> "municipio"
      [] c = "responsável" -> "responsavel"
      [] c = "técnico" -> "tecnico"
      [] c = "usuário" -> "usuario"
      [] c = "Usuário" -> "Usuario"
      [] c = "Máquina" -> "Maquina"
      [] c = "Município" -> "Municipio"
      [] c = "Responsável" -> "Responsavel"
      [] OTHER -> c

\* app.py:127-131
strip_accents(s) == [i \in DOMAIN s |-> strip_accents_atom(s[i])]

\* s.replace("?", ":")
replace_question(s) == [i \in DOMAIN s |-> IF s[i] = "?" THEN ":" ELSE s[i]]

\* s.replace(" :", ":"): left to right, non-overlapping.
RECURSIVE replace_space_colon(_)
replace_space_colon(s) ==
    IF s = <<>> THEN <<>>
    ELSE IF Len(s) >= 2 /\ s[1] = " " /\ s[2] = ":"
         THEN <<":">> \o replace_space_colon(SubSeq(s, 3, Len(s)))
         ELSE <<s[1]>> \o replace_space_colon(Tail(s))

\* if s.endswith(":"): s = s[:-1]
drop_final_colon(s) ==
    IF s # <<>> /\ s[Len(s)] = ":" THEN SubSeq(s, 1, Len(s) - 1) ELSE s

\* re.sub(r"\s+", " ", s): every whitespace run becomes one space.
RECURSIVE collapse_whitespace(_)
collapse_whitespace(s) ==
    IF s = <<>> THEN <<>>
    ELSE IF s[1] \in Whitespace
         THEN <<" ">> \o collapse_whitespace(lstrip(s))
         ELSE <<s[1]>> \o collapse_whitespace(Tail(s))

\* app.py:133-143.  Every caller passes a str, so the None branch of line
\* 134 is not taken.
canonical_key(lbl) ==
    LET s1 == lower(strip(lbl))
        s2 == replace_question(s1)
        s3 == replace_space_colon(s2)
        s4 == drop_final_colon(s3)
        s5 == strip_accents(s4)
    IN  collapse_whitespace(s5)

(***************************************************************************)
(* SpecCanon: canonical_key applied to every label over a small alphabet.  *)
(***************************************************************************)
CanonAlphabet == {"a", "A", "á", " ", "\t", ":", "?"}

IdleCanon ==
    /\ label = <<>>
    /\ key = <<>>
    /\ rekey = <<>>
    /\ key_q = <<>>
    /\ key_c = <<>>
    /\ cpc = "idle"

\* key = canonical_key(label)
CanonicalKey ==
    /\ cpc = "start"
    /\ key' = canonical_key(label)
    /\ cpc' = "keyed"
    /\ UNCHANGED <<label, rekey, key_q, key_c, recordVars, batchVars, scanVars>>

\* rekey = canonical_key(key): the key canonicalized again
CanonicalKeyAgain ==
    /\ cpc = "keyed"
    /\ rekey' = canonical_key(key)
    /\ cpc' = "rekeyed"
    /\ UNCHANGED <<label, key, key_q, key_c, recordVars, batchVars, scanVars>>

\* canonical_key(label + "?") and canonical_key(label + ":")
CanonicalKeyTerminated ==
    /\ cpc = "rekeyed"
    /\ key_q' = canonical_key(label \o <<"?">>)
    /\ key_c' = canonical_key(label \o <<":">>)
    /\ cpc' = "done"
    /\ UNCHANGED <<label, key, rekey, recordVars, batchVars, scanVars>>

NextCanon == CanonicalKey \/ CanonicalKeyAgain \/ CanonicalKeyTerminated

(***************************************************************************)
(* Python values.                                                          *)
(***************************************************************************)
None == [t |-> "none", s |-> <<>>]

NaN == [t |-> "nan", s |-> <<>>]

\* A reportlab Image (the result of fetch_image).
Image == [t |-> "img", s |-> <<>>]

Str(s) == [t |-> "str", s |-> s]

\* A float that is not NaN; s is the atoms str() prints for it ("7.0").
Float(s) == [t |-> "float", s |-> s]

\* str(v)
py_str(v) ==
    CASE v.t = "none" -> <<"None">>
      [] v.t = "nan" -> <<"nan">>
      [] v.t = "img" -> <<"<Image>">>
      [] OTHER -> v.s

\* A pair (q, a) of the record.  pos is the identity of the tuple: its
\* place (from 1) in the pair list it was first appended to.
Pair(q, a, pos) == [q |-> q, a |-> a, pos |-> pos]

(***************************************************************************)
(* Product groups: app.py:201-283.                                         *)
(***************************************************************************)
BlankStrings == {<<>>, <<"-">>, <<"n/a">>, <<"na">>, <<"null">>, <<"none">>}

\* app.py:210-219
is_blank_value(v) ==
    IF v.t = "none" THEN TRUE
    ELSE IF v.t = "nan" THEN TRUE
    ELSE IF v.t = "img" THEN FALSE
    ELSE lower(strip(py_str(v))) \in BlankStrings

Digits == <<"0", "1", "2", "3", "4", "5", "6", "7", "8", "9">>

IsDigit(c) == c \in Range(Digits)

DigitVal(c) == (CHOOSE i \in 1..10 : Digits[i] = c) - 1

\* The longest prefix of digits of s (the greedy \d+).
RECURSIVE take_digits(_)
take_digits(s) ==
    IF s # <<>> /\ IsDigit(Head(s))
    THEN <<Head(s)>> \o take_digits(Tail(s))
    ELSE <<>>

\* int() of a digit string
RECURSIVE py_int(_)
py_int(d) ==
    IF d = <<>> THEN 0
    ELSE 10 * py_int(SubSeq(d, 1, Len(d) - 1)) + DigitVal(d[Len(d)])

\* str() of a natural number
RECURSIVE decimal(_)
decimal(n) ==
    IF n < 10 THEN <<Digits[n + 1]>>
    ELSE decimal(n \div 10) \o <<Digits[(n % 10) + 1]>>

\* PRODUCT_REGEX from the colon on: \s*:\s*$ after the digits d, on r2,
\* the text after the digits with its leading whitespace skipped.
regex_colon(d, r2) ==
    IF /\ d # <<>>
       /\ r2 # <<>>
       /\ Head(r2) = ":"
       /\ lstrip(Tail(r2)) = <<>>
    THEN d
    ELSE <<>>

\* PRODUCT_REGEX from the digits on: (\d+), greedy, on r1, the text after
\* "produto" with its leading whitespace skipped.
regex_number(d, r1) == regex_colon(d, lstrip(SubSeq(r1, Len(d) + 1, Len(r1))))

\* PRODUCT_REGEX on the stripped label s: ^produto\s*, any case.
regex_produto(s) ==
    IF s = <<>> \/ lower_atom(Head(s)) # "produto" THEN <<>>
    ELSE regex_number(take_digits(lstrip(Tail(s))), lstrip(Tail(s)))

\* app.py:202 PRODUCT_REGEX = ^produto\s*(\d+)\s*:\s*$ (IGNORECASE), matched
\* against str(q).strip(): the digits captured, or <<>> when there is no
\* match.
product_regex_digits(q) == regex_produto(strip(q))

\* bool(PRODUCT_REGEX.match(str(q).strip()))
is_anchor(q) == product_regex_digits(q) # <<>>

\* app.py:203-208 EXPECTED_PRODUCT_FIELDS, formatted with n (line 240)
expected_labels(n) ==
    << <<"Produto", " ">> \o decimal(n) \o <<":">>,
       <<"Lote", ":">>,
       <<"Dose", " ", "(ml/100kg)", ":">>,
       <<"Utilizado", " ", "(ml", " ", "total)", ":">> >>

\* app.py:245-253: the scan of the sub-fields after an anchor, from place
\* j.  collected is the dict keyed by label; used the set used_idx.
RECURSIVE inner_scan(_, _, _, _, _)
inner_scan(ps, j, expected, collected, used) ==
    IF j > Len(ps) THEN [j |-> j, collected |-> collected, used |-> used]
    ELSE IF is_anchor(ps[j].q)
         THEN [j |-> j, collected |-> collected, used |-> used]
         ELSE IF strip(ps[j].q) \in {expected[2], expected[3], expected[4]}
              THEN inner_scan(ps, j + 1, expected,
                              [collected EXCEPT ![strip(ps[j].q)] = ps[j].a],
                              used \cup {j})
              ELSE inner_scan(ps, j + 1, expected, collected, used)

\* Mutant of has_any_answer: only the anchor's own value counts.
has_any_answer_anchor_only(collected, expected) ==
    ~is_blank_value(collected[expected[1]])

\* app.py:256
has_any_answer(collected, expected) ==
    \E l \in 1..Len(expected) : ~is_blank_value(collected[expected[l]])

\* app.py:259-268: the items of an emitted group, in the expected order.
\* An item holds the label and the answer flowable: the Image itself, or
\* the text of the Paragraph.
product_items(collected, expected) ==
    [l \in 1..Len(expected) |->
        LET val == collected[expected[l]]
        IN  [q |-> expected[l],
             a |-> IF val.t = "img" THEN val
                   ELSE IF is_blank_value(val) THEN Str(<<"-">>)
                   ELSE Str(strip(py_str(val)))]]

\* Mutant of below_max_products: one group too many.
below_max_products_off_by_one(prods, maxp) == Len(prods) <= maxp

\* app.py:238, the second conjunct: len(products) < max_products
below_max_products(prods, maxp) == Len(prods) < maxp

\* app.py:235-274: the outer scan from place i.  Each processed anchor adds
\* an entry to log (its place, its index n, its four collected fields, the
\* places it marked used, and whether its group was emitted).
RECURSIVE outer_scan(_, _, _, _, _, _)

\* Mutant of close_group: a group of index n replaces the groups of that
\* index emitted before it.
close_group_overwrite(ps, i, maxp, prods, used, log, n, expected, sc, emit) ==
    outer_scan(ps, sc.j, maxp,
               IF emit
               THEN Append(SelectSeq(prods, LAMBDA p : p.n # n),
                           [n |-> n, pos |-> i,
                            items |-> product_items(sc.collected, expected)])
               ELSE prods,
               used \cup sc.used,
               Append(log, [pos |-> i, n |-> n,
                            fields |-> [l \in 1..4 |-> sc.collected[expected[l]]],
                            used |-> sc.used,
                            emitted |-> emit]))

\* app.py:256-273: the group of the anchor at place i, index n, after its
\* sub-field scan sc; emit is has_any_answer.
close_group(ps, i, maxp, prods, used, log, n, expected, sc, emit) ==
    outer_scan(ps, sc.j, maxp,
               IF emit
               THEN Append(prods, [n |-> n, pos |-> i,
                                   items |-> product_items(sc.collected, expected)])
               ELSE prods,
               used \cup sc.used,
               Append(log, [pos |-> i, n |-> n,
                            fields |-> [l \in 1..4 |-> sc.collected[expected[l]]],
                            used |-> sc.used,
                            emitted |-> emit]))

\* app.py:245-256: the sub-field scan of the anchor at place i
scan_group(ps, i, maxp, prods, used, log, n, expected, sc) ==
    close_group(ps, i, maxp, prods, used, log, n, expected, sc,
                has_any_answer(sc.collected, expected))

\* app.py:240-243: the dict collected and used_idx.add(i)
open_group(ps, i, maxp, prods, used, log, n, expected) ==
    scan_group(ps, i, maxp, prods, used, log, n, expected,
               inner_scan(ps, i + 1, expected,
                          [[l \in Range(expected) |-> None]
                               EXCEPT ![expected[1]] = ps[i].a],
                          {i}))

outer_scan(ps, i, maxp, prods, used, log) ==
    IF i > Len(ps) THEN [products |-> prods, used |-> used, log |-> log]
    ELSE IF is_anchor(ps[i].q) /\ below_max_products(prods, maxp)
         THEN open_group(ps, i, maxp, prods, used, log,
                         py_int(product_regex_digits(ps[i].q)),
                         expected_labels(py_int(product_regex_digits(ps[i].q))))
         ELSE outer_scan(ps, i + 1, maxp, prods, used, log)

\* Mutant of unused_pairs: the used places are not skipped.
unused_pairs_all(ps, idx, used) == SubSeq(ps, idx, Len(ps))

\* app.py:277-280: the pairs whose place is not in used, in their order.
RECURSIVE unused_pairs(_, _, _)
unused_pairs(ps, idx, used) ==
    IF idx > Len(ps) THEN <<>>
    ELSE IF idx \in used THEN unused_pairs(ps, idx + 1, used)
         ELSE <<ps[idx]>> \o unused_pairs(ps, idx + 1, used)

\* One step of a stable insertion sort by n.
RECURSIVE insert_by_n(_, _)
insert_by_n(sorted, p) ==
    IF sorted = <<>> THEN <<p>>
    ELSE IF sorted[Len(sorted)].n <= p.n THEN Append(sorted, p)
         ELSE Append(insert_by_n(SubSeq(sorted, 1, Len(sorted) - 1), p),
                     sorted[Len(sorted)])

RECURSIVE sort_from(_, _, _)
sort_from(prods, k, sorted) ==
    IF k > Len(prods) THEN sorted
    ELSE sort_from(prods, k + 1, insert_by_n(sorted, prods[k]))

\* Mutant of sort_products: the groups stay in row order.
sort_products_row_order(prods) == prods

\* app.py:282 products.sort(key=lambda d: d["n"]) (stable)
sort_products(prods) == sort_from(prods, 1, <<>>)

\* app.py:276-283: what the function returns after the scan sc (with
\* used_idx and the log of the scan).
extract_result(ps, sc) ==
    [products |-> sort_products(sc.products),
     rest |-> unused_pairs(ps, 1, sc.used),
     used_idx |-> sc.used,
     log |-> sc.log]

\* app.py:221-283
extract_products_and_rest(ps, maxp) ==
    extract_result(ps, outer_scan(ps, 1, maxp, <<>>, {}, <<>>))

(***************************************************************************)
(* Named groups: app.py:304-400.                                           *)
(***************************************************************************)
\* app.py:305-310
GROUPS ==
    << << <<"Data">>, <<"Máquina", " ", "TS">>, <<"Supervisor", " ", "OTM">> >>,
       << <<"Canal">>, <<"Cidade">>, <<"UF">>,
          <<"Consultor", " ", "Responsável">> >>,
       << <<"Empresa", " ", "Contratante">>, <<"Produtor">>,
          <<"Telefone", " ", "do", " ", "Produtor">>, <<"Cidade">>, <<"UF">> >>,
       << <<"Cultura">>, <<"Variedade">>, <<"Lote">>, <<"Empresa">>, <<"Tipo">>,
          <<"Peso", " ", "Total">> >> >>

\* app.py:312-331
SYNONYMS ==
    (<<"data">> :> << <<"data">>, <<"data", " ", "aplicação">>,
                      <<"data", " ", "do", " ", "ts">>,
                      <<"data", " ", "da", " ", "aplicação">> >>)
    @@ (<<"maquina", " ", "ts">> :>
            << <<"maquina", " ", "ts">>, <<"máquina", " ", "ts">>,
               <<"maquina", " ", "de", " ", "ts">> >>)
    @@ (<<"supervisor", " ", "otm">> :>
            << <<"supervisor", " ", "otm">>, <<"supervisor">>,
               <<"otm", " ", "supervisor">> >>)
    @@ (<<"canal">> :> << <<"canal">> >>)
    @@ (<<"cidade">> :> << <<"cidade">>, <<"municipio">>, <<"município">> >>)
    @@ (<<"uf">> :> << <<"uf">>, <<"estado">>, <<"sigla", " ", "uf">> >>)
    @@ (<<"consultor", " ", "responsavel">> :>
            << <<"consultor", " ", "responsavel">>,
               <<"consultor", " ", "responsável">>,
               <<"responsavel", " ", "tecnico">>,
               <<"responsável", " ", "técnico">> >>)
    @@ (<<"empresa", " ", "contratante">> :>
            << <<"empresa", " ", "contratante">>, <<"contratante">> >>)
    @@ (<<"produtor">> :>
            << <<"produtor">>, <<"nome", " ", "do", " ", "produtor">> >>)
    @@ (<<"telefone", " ", "do", " ", "produtor">> :>
            << <<"telefone", " ", "do", " ", "produtor">>,
               <<"telefone", " ", "produtor">>, <<"telefone">> >>)
    @@ (<<"cultura">> :> << <<"cultura">> >>)
    @@ (<<"variedade">> :> << <<"variedade">>, <<"cultivar">> >>)
    @@ (<<"lote">> :> << <<"lote">>, <<"lote", " ", "geral">> >>)
    @@ (<<"empresa">> :>
            << <<"empresa">>, <<"empresa", " ", "ts">>,
               <<"empresa", " ", "executora">> >>)
    @@ (<<"tipo">> :> << <<"tipo">> >>)
    @@ (<<"peso", " ", "total">> :>
            << <<"peso", " ", "total">>, <<"peso">>,
               <<"peso", " ", "total", " ", "(kg)">> >>)

\* app.py:333-334
canon_from_display(lbl) == canonical_key(lbl)

\* The places of s, ascending, as a sequence.
RECURSIVE ascending(_)
ascending(s) ==
    IF s = {} THEN <<>>
    ELSE LET m == CHOOSE x \in s : \A y \in s : x <= y
         IN  <<m>> \o ascending(s \ {m})

\* app.py:343-349.  index maps a place of rest (from 1) to its pair;
\* pockets maps a canonical key to the places holding it, ascending.
build_lookup(ps) ==
    LET idx == [i \in 1..Len(ps) |-> ps[i]]
        keys == {canonical_key(ps[i].q) : i \in 1..Len(ps)}
    IN  [index |-> idx,
         pockets |-> [k \in keys |->
                        ascending({i \in 1..Len(ps) : canonical_key(ps[i].q) = k})]]

\* dict.pop(k, default): the dict without k
dict_without(d, k) == [x \in DOMAIN d \ {k} |-> d[x]]

\* app.py:353 SYNONYMS.get(target, [target])
synonyms_get(target) ==
    IF target \in DOMAIN SYNONYMS THEN SYNONYMS[target] ELSE <<target>>

\* app.py:354 [canonical_key(s) for s in syns]
canonical_keys(syns) == [i \in DOMAIN syns |-> canonical_key(syns[i])]

\* The variants tried for a wanted label, in order: app.py:352-354
synonyms_of(wanted) == canonical_keys(synonyms_get(canon_from_display(wanted)))

\* app.py:355-356: the first place k of syns, from k0, whose key has a
\* non-empty pocket; 0 when there is none.
RECURSIVE first_pocket(_, _, _)
first_pocket(syns, k0, pk) ==
    IF k0 > Len(syns) THEN 0
    ELSE IF syns[k0] \in DOMAIN pk /\ pk[syns[k0]] # <<>> THEN k0
         ELSE first_pocket(syns, k0 + 1, pk)

\* Mutant of take_from_pocket: the newest place of the pocket is taken.
take_from_pocket_last(pocket) ==
    [idx |-> pocket[Len(pocket)], left |-> SubSeq(pocket, 1, Len(pocket) - 1)]

\* app.py:357 idx = pockets[s].pop(0)
take_from_pocket(pocket) == [idx |-> Head(pocket), left |-> Tail(pocket)]

\* Mutant of index_pop: the pair stays in the index.
index_pop_keep(idx, i) == idx

\* app.py:358 index.pop(idx, ...): the index without place i
index_pop(idx, i) == dict_without(idx, i)

\* app.py:357-361: the pair taken for variant s; tk is the place taken
\* from the pocket of s and what the pocket keeps.
pop_taken(idx, pk, s, tk) ==
    [found |-> tk.idx \in DOMAIN idx,
     q |-> IF tk.idx \in DOMAIN idx THEN Str(idx[tk.idx].q) ELSE None,
     a |-> IF tk.idx \in DOMAIN idx THEN idx[tk.idx].a ELSE None,
     pos |-> IF tk.idx \in DOMAIN idx THEN idx[tk.idx].pos ELSE 0,
     index |-> index_pop(idx, tk.idx),
     pockets |-> IF tk.left = <<>> THEN dict_without(pk, s)
                 ELSE [pk EXCEPT ![s] = tk.left]]

\* app.py:355-362: k is the place in syns of the first variant with a
\* non-empty pocket, 0 when there is none.
pop_variant(idx, pk, syns, k) ==
    IF k = 0
    THEN [found |-> FALSE, q |-> None, a |-> None, pos |-> 0,
          index |-> idx, pockets |-> pk]
    ELSE pop_taken(idx, pk, syns[k], take_from_pocket(pk[syns[k]]))

\* app.py:355-362 with syns computed
pop_among(idx, pk, syns) == pop_variant(idx, pk, syns, first_pocket(syns, 1, pk))

\* app.py:351-362.  found is FALSE for the result (None, None).
pop_first_matching(idx, pk, wanted) == pop_among(idx, pk, synonyms_of(wanted))

\* The text of the "missing" slot: app.py:386
MissingPlaceholder == Str(<<"-">>)

\* Mutant of slot_of: the value as it is, with no placeholder.
slot_of_raw(a) == a

\* app.py:383-387: the flowable of one value of the bottom row
slot_of(a) ==
    IF a.t = "img" THEN a
    ELSE IF a.t # "none" /\ strip(py_str(a)) # <<>> THEN Str(strip(py_str(a)))
    ELSE MissingPlaceholder

\* The entry of the history of calls for one call: the wanted label,
\* the pool (index) before and after, and what was returned (r).
call_entry(wanted, idx, r) ==
    [wanted |-> wanted, before |-> idx, after |-> r.index, found |-> r.found,
     a |-> r.a, pos |-> r.pos]

\* app.py:371-374: the labels from place l on, each resolved against the
\* pool.  Each call of pop_first_matching adds an entry to log.
RECURSIVE resolve_labels(_, _, _, _, _, _)

\* app.py:373-374 after the call of line 372 returned r
resolve_next(labels_order, l, idx, values, log, r) ==
    resolve_labels(labels_order, l + 1, r.index, r.pockets, Append(values, r.a),
                   Append(log, call_entry(labels_order[l], idx, r)))

resolve_labels(labels_order, l, idx, pk, values, log) ==
    IF l > Len(labels_order)
    THEN [values |-> values, index |-> idx, pockets |-> pk, log |-> log]
    ELSE resolve_next(labels_order, l, idx, values, log,
                      pop_first_matching(idx, pk, labels_order[l]))

\* make_inline_group_block's result when the group has no label (line 367)
NoTable == [none |-> TRUE, top |-> <<>>, bottom |-> <<>>]

\* app.py:376-400: the table of the resolved values r.values
block_of(labels_order, r) ==
    [tbl |-> [none |-> FALSE,
              top |-> labels_order,
              bottom |-> [i \in DOMAIN r.values |-> slot_of(r.values[i])]],
     index |-> r.index, pockets |-> r.pockets, log |-> r.log]

\* app.py:364-400: the block (its row of labels and its row of slots), and
\* the pool after it.
make_inline_group_block(labels_order, idx, pk) ==
    IF Len(labels_order) = 0
    THEN [tbl |-> NoTable, index |-> idx, pockets |-> pk, log |-> <<>>]
    ELSE block_of(labels_order, resolve_labels(labels_order, 1, idx, pk, <<>>, <<>>))

(***************************************************************************)
(* One record of the main loop: app.py:487-506.                            *)
(***************************************************************************)
\* app.py:488 max_products=11
MainMaxProducts == 11

IdleRecord ==
    /\ pairs = <<>>
    /\ max_products = MainMaxProducts
    /\ products = <<>>
    /\ rest = <<>>
    /\ used_idx = {}
    /\ groups_log = <<>>
    /\ index = <<>>
    /\ pockets = <<>>
    /\ story = <<>>
    /\ calls = <<>>
    /\ g = 0
    /\ remaining_pairs = <<>>
    /\ pc = "idle"

IdleBatch ==
    /\ rows = <<>>
    /\ done_rows = 0
    /\ files = <<>>
    /\ generated_files = <<>>
    /\ archive = <<>>
    /\ bpc = "idle"

IdleScan ==
    /\ row_full = <<>>
    /\ row_data = <<>>
    /\ scan_i = 1
    /\ scan_log = <<>>
    /\ spc = "idle"

\* The pair list of (q, a) choices qa, each pair tagged with its place.
MakePairs(qa) == [i \in DOMAIN qa |-> Pair(qa[i].q, qa[i].a, i)]

StartRecord(ps, maxp) ==
    /\ pairs = ps
    /\ max_products = maxp
    /\ products = <<>>
    /\ rest = <<>>
    /\ used_idx = {}
    /\ groups_log = <<>>
    /\ index = <<>>
    /\ pockets = <<>>
    /\ story = <<>>
    /\ calls = <<>>
    /\ g = 0
    /\ remaining_pairs = <<>>
    /\ pc = "extract"

\* index, pockets = lk
Lookup(lk) ==
    /\ index' = lk.index
    /\ pockets' = lk.pockets

\* products, rest_pairs = r, then the lookup of rest_pairs
Extracted(r) ==
    /\ products' = r.products
    /\ rest' = r.rest
    /\ used_idx' = r.used_idx
    /\ groups_log' = r.log
    /\ Lookup(build_lookup(r.rest))

\* app.py:488-491: products, rest_pairs = extract_products_and_rest(...);
\* index, pockets = build_lookup(rest_pairs)
ExtractProductsAndRest ==
    /\ pc = "extract"
    /\ Extracted(extract_products_and_rest(pairs, max_products))
    /\ pc' = "groups"
    /\ UNCHANGED <<pairs, max_products, story, calls, g, remaining_pairs,
                   canonVars, batchVars, scanVars>>

\* app.py:500-503: tbl, _ = r; if tbl: story.append(tbl)
BlockMade(r) ==
    /\ story' = IF r.tbl.none THEN story ELSE Append(story, r.tbl)
    /\ index' = r.index
    /\ pockets' = r.pockets
    /\ calls' = calls \o r.log

\* app.py:499-503: one turn of "for group in GROUPS"
MakeInlineGroupBlock ==
    /\ pc = "groups"
    /\ g < Len(GROUPS)
    /\ BlockMade(make_inline_group_block(GROUPS[g + 1], index, pockets))
    /\ g' = g + 1
    /\ UNCHANGED <<pairs, max_products, products, rest, used_idx, groups_log,
                   remaining_pairs, pc, canonVars, batchVars, scanVars>>

\* app.py:506 remaining_pairs = list(index.values()): the pairs still in
\* the index, in insertion order (ascending place).
RemainingPairs ==
    /\ pc = "groups"
    /\ g = Len(GROUPS)
    /\ remaining_pairs' = LET ks == ascending(DOMAIN index)
                          IN  [i \in DOMAIN ks |-> index[ks[i]]]
    /\ pc' = "done"
    /\ UNCHANGED <<pairs, max_products, products, rest, used_idx, groups_log,
                   index, pockets, story, calls, g, canonVars, batchVars, scanVars>>

(***************************************************************************)
(* Spec: one record as the main loop builds it.  The pair list starts with *)
(* the fixed pair of line 452 and goes on with the scanned pairs, whose    *)
(* values line 482 never leaves empty.                                     *)
(***************************************************************************)
UserPair == [q |-> <<"Usuário", ":">>, a |-> Str(<<"Ana">>)]

ScannedLabels ==
    { <<"Produto", " ", "1", ":">>,
      <<"Lote", ":">>,
      <<"Cidade", ":">>,
      <<"Município", "?">> }

ScannedValues == {Str(<<"-">>), Str(<<"a">>)}

ScannedPairs == {[q |-> q, a |-> a] : q \in ScannedLabels, a \in ScannedValues}

Init ==
    /\ \E s \in SeqsUpTo(ScannedPairs, MaxPairs) :
          StartRecord(MakePairs(<<UserPair>> \o s), MainMaxProducts)
    /\ IdleCanon
    /\ IdleBatch
    /\ IdleScan

Next == ExtractProductsAndRest \/ MakeInlineGroupBlock \/ RemainingPairs

Spec == Init /\ [][Next]_vars

(***************************************************************************)
(* SpecExtract: extract_products_and_rest on any pair list and any bound.  *)
(***************************************************************************)
ExtractLabels ==
    { <<"Produto", " ", "1", ":">>,
      <<"PRODUTO", "2", " ", ":">>,
      <<"Lote", ":">>,
      <<"Utilizado", " ", "(ml", " ", "total)", ":">>,
      <<"Obs", ":">> }

PlainValues == {Str(<<"-">>), Str(<<"X">>)}

RareValues ==
    { None, NaN, Image, Str(<<>>), Str(<<" ", " ">>), Str(<<" ", "N/A", " ">>),
      Str(<<"na">>), Str(<<"NULL">>), Str(<<"None">>), Str(<<"0">>),
      Str(<<"-", "1">>) }

\* An anchor and one sub-field, each with any value: the lists on which
\* the blank predicate decides between every two kinds of value.
BlankBoundaryInputs ==
    {<< [q |-> <<"Produto", " ", "1", ":">>, a |-> v1],
        [q |-> <<"Lote", ":">>, a |-> v2] >> :
        v1 \in PlainValues \cup RareValues, v2 \in PlainValues \cup RareValues}

\* The (q, a) lists of length at most n over the plain values, and the
\* blank-boundary lists.
ExtractInputs(n) ==
    SeqsUpTo({[q |-> q, a |-> a] : q \in ExtractLabels, a \in PlainValues}, n)
    \cup BlankBoundaryInputs

MaxProductsChoices == {1, 2, MainMaxProducts}

InitExtract ==
    /\ \E s \in ExtractInputs(MaxPairs), maxp \in MaxProductsChoices :
          StartRecord(MakePairs(s), maxp)
    /\ IdleCanon
    /\ IdleBatch
    /\ IdleScan

NextExtract == ExtractProductsAndRest

SpecExtract == InitExtract /\ [][NextExtract]_vars

(***************************************************************************)
(* SpecCanon                                                               *)
(***************************************************************************)
InitCanon ==
    /\ label \in SeqsUpTo(CanonAlphabet, MaxLabelLen)
    /\ key = <<>>
    /\ rekey = <<>>
    /\ key_q = <<>>
    /\ key_c = <<>>
    /\ cpc = "start"
    /\ IdleRecord
    /\ IdleBatch
    /\ IdleScan

SpecCanon == InitCanon /\ [][NextCanon]_vars

(***************************************************************************)
(* SpecPop: pop_first_matching called any number of times, for any wanted  *)
(* labels, on the lookup of any pool.                                      *)
(***************************************************************************)
MaxCalls == 2

PoolLabels == { <<"Cidade", ":">>, <<"Município", "?">>, <<"Obs", ":">> }

PoolPairs == {[q |-> q, a |-> Str(<<"a">>)] : q \in PoolLabels}

\* "Obs" has no entry in SYNONYMS; nothing in the pool matches "UF".
WantedLabels == { <<"Cidade">>, <<"Obs">>, <<"UF">> }

\* index, pockets = lk
PoolOf(lk) ==
    /\ index = lk.index
    /\ pockets = lk.pockets

InitPop ==
    /\ \E s \in SeqsUpTo(PoolPairs, MaxPairs) :
          /\ pairs = MakePairs(s)
          /\ rest = pairs
          /\ PoolOf(build_lookup(pairs))
    /\ max_products = MainMaxProducts
    /\ products = <<>>
    /\ used_idx = {}
    /\ groups_log = <<>>
    /\ story = <<>>
    /\ calls = <<>>
    /\ g = 0
    /\ remaining_pairs = <<>>
    /\ pc = "pop"
    /\ IdleCanon
    /\ IdleBatch
    /\ IdleScan

\* The pool and the history after a call returned r.
Popped(wanted, r) ==
    /\ index' = r.index
    /\ pockets' = r.pockets
    /\ calls' = Append(calls, call_entry(wanted, index, r))

\* q, a = pop_first_matching(index, pockets, wanted): app.py:372
PopFirstMatching ==
    /\ pc = "pop"
    /\ Len(calls) < MaxCalls
    /\ \E wanted \in WantedLabels :
          Popped(wanted, pop_first_matching(index, pockets, wanted))
    /\ UNCHANGED <<pairs, max_products, products, rest, used_idx, groups_log,
                   story, g, remaining_pairs, pc, canonVars, batchVars, scanVars>>

NextPop == PopFirstMatching

SpecPop == InitPop /\ [][NextPop]_vars

(***************************************************************************)
(* SpecBatch: the loop over the data rows and the archive, app.py:431-537. *)
(* What the body does with the pairs of a row is the record model above;   *)
(* here a row counts for the file it is rendered to.                       *)
(***************************************************************************)
\* The digits of a float's str() before the point.
RECURSIVE int_part(_)
int_part(s) ==
    IF s = <<>> \/ Head(s) = "." THEN <<>> ELSE <<Head(s)>> \o int_part(Tail(s))

\* float.is_integer(): nothing but zeros after the point
is_integer(s) ==
    \A i \in (Len(int_part(s)) + 2)..Len(s) : s[i] = "0"

\* app.py:120-125
normalize_value(v) ==
    IF v.t = "none" \/ v.t = "nan" THEN <<>>
    ELSE IF v.t = "float" /\ is_integer(v.s) THEN int_part(v.s)
    ELSE strip(py_str(v))

\* app.py:431
output_dir == <<"relatorios_individuais">>

\* app.py:445.  row_full[4] is the fifth cell.
reg_id_of(row, r_index) ==
    IF Len(row) > 0 THEN normalize_value(row[5])
    ELSE <<"registro_">> \o decimal(r_index - 1)

\* app.py:446
pdf_file_name_of(reg_id) ==
    output_dir \o <<"/", "relatorio_">> \o reg_id \o <<".pdf">>

\* os.path.basename of a name under output_dir
basename(path) == SubSeq(path, Len(output_dir) + 2, Len(path))

\* app.py:521-529: doc.build writes the file of row k, replacing a file of
\* the same name.
Built(k, name) ==
    /\ files' = [n \in DOMAIN files \cup {name} |->
                    IF n = name THEN k ELSE files[n]]
    /\ generated_files' = Append(generated_files, name)
    /\ done_rows' = k

\* app.py:439-531: one turn of the loop, for data row k (r_index = k + 1).
RenderRecord ==
    /\ bpc = "loop"
    /\ done_rows < Len(rows)
    /\ Built(done_rows + 1,
             pdf_file_name_of(reg_id_of(rows[done_rows + 1], done_rows + 2)))
    /\ UNCHANGED <<rows, archive, bpc, canonVars, recordVars, scanVars>>

\* app.py:533-537: every generated file name is written to the archive
\* with the content the file has then.
PackageZip ==
    /\ bpc = "loop"
    /\ done_rows = Len(rows)
    /\ generated_files # <<>>
    /\ archive' = [i \in DOMAIN generated_files |->
                      [name |-> basename(generated_files[i]),
                       doc |-> files[generated_files[i]]]]
    /\ bpc' = "done"
    /\ UNCHANGED <<rows, done_rows, files, generated_files, canonVars,
                   recordVars, scanVars>>

\* The cells of the id column: an empty cell, texts, a number.
IdCells == {NaN, Str(<<"A">>), Str(<<"B">>), Float(<<"7", ".", "0">>)}

\* A row of the sheet whose fifth cell is id; its other cells are empty.
RowOf(id) == [c \in 1..SheetColumns |-> IF c = 5 THEN id ELSE NaN]

InitBatch ==
    /\ \E n \in 1..MaxRows :
          \/ \E ids \in [1..n -> IdCells] : rows = [k \in 1..n |-> RowOf(ids[k])]
          \/ rows = [k \in 1..n |-> <<>>]
    /\ done_rows = 0
    /\ files = <<>>
    /\ generated_files = <<>>
    /\ archive = <<>>
    /\ bpc = "loop"
    /\ IdleCanon
    /\ IdleRecord
    /\ IdleScan

NextBatch == RenderRecord \/ PackageZip

SpecBatch == InitBatch /\ [][NextBatch]_vars

(***************************************************************************)
(* SpecScan: the label/value scan of one row, app.py:448-485.              *)
(***************************************************************************)
\* app.py:116-118
looks_like_label(v) ==
    v.t = "str" /\ \E k \in DOMAIN v.s : v.s[k] \in {":", "?"}

\* str.replace("\n", "").replace("\r", "")
RECURSIVE remove_newlines(_)
remove_newlines(s) ==
    IF s = <<>> THEN <<>>
    ELSE IF Head(s) \in {"\n", "\r"} THEN remove_newlines(Tail(s))
    ELSE <<Head(s)>> \o remove_newlines(Tail(s))

\* app.py:464 value, from the cell value_raw
clean_value(value_raw) == strip(remove_newlines(normalize_value(value_raw)))

\* x in s, for str: s holds x as a run of atoms
contains(s, x) ==
    \E k \in 1..(Len(s) - Len(x) + 1) : SubSeq(s, k, k + Len(x) - 1) = x

\* app.py:468-470: the known image fields
ImageFields ==
    { <<"foto", " ", "1", ":", " ", "semente", " ", "tratada", " ", "e", " ",
        "não", " ", "tratada">>,
      <<"foto", " ", "2", ":", " ", "embalagem", " ", "dos", " ", "produtos">>,
      <<"assinatura", " ", "do", " ", "produtor", " ", "ou", " ",
        "responsável">> }

\* app.py:467-471
is_image_field(lbl) == \E x \in ImageFields : contains(lower(lbl), lower(x))

\* app.py:113-114, for a str s
is_url(s) ==
    strip(s) # <<>> /\ lower_atom(Head(strip(s))) \in {"http", "https"}

\* app.py:473-482: the values the pair of (lbl, value) can get.  fetch_image
\* returns an Image, or None when the download fails (app.py:94-111), and
\* then the pair keeps the text.
pair_values(lbl, value) ==
    IF is_image_field(lbl) /\ is_url(value)
    THEN {Image, Str(value)}
    ELSE {Str(IF value = <<>> THEN <<"-">> ELSE value)}

\* Mutant of after_pair: the scan resumes at the value cell.
after_pair_by_one(i) == i + 1

\* app.py:479, 483: i += 2
after_pair(i) == i + 2

\* app.py:451: user_name
user_name_of(row) == IF Len(row) > 2 THEN normalize_value(row[9]) ELSE <<"-">>

\* app.py:455: row_full[9:] if len(row_full) > 9 else []
row_data_of(row) == IF Len(row) > 9 THEN SubSeq(row, 10, Len(row)) ELSE <<>>

\* app.py:448-458: the fixed pair, row_data, i = 0
UserName ==
    /\ spc = "user"
    /\ pairs' = <<Pair(<<"Usuário", ":">>, Str(user_name_of(row_full)), 1)>>
    /\ row_data' = row_data_of(row_full)
    /\ scan_i' = 1
    /\ spc' = "scan"
    /\ UNCHANGED <<row_full, scan_log, max_products, products, rest, used_idx,
                   groups_log, index, pockets, story, calls, g,
                   remaining_pairs, pc, canonVars, batchVars>>

\* app.py:461-483: a turn of the while loop that appends a pair
ScanPair ==
    /\ spc = "scan"
    /\ scan_i <= Len(row_data)
    /\ looks_like_label(row_data[scan_i])
    /\ scan_i + 1 <= Len(row_data)
    /\ \E a \in pair_values(normalize_value(row_data[scan_i]),
                            clean_value(row_data[scan_i + 1])) :
          pairs' = Append(pairs, Pair(normalize_value(row_data[scan_i]), a,
                                      Len(pairs) + 1))
    /\ scan_log' = Append(scan_log, [label_at |-> scan_i,
                                     value_at |-> scan_i + 1])
    /\ scan_i' = after_pair(scan_i)
    /\ UNCHANGED <<row_full, row_data, spc, max_products, products, rest,
                   used_idx, groups_log, index, pockets, story, calls, g,
                   remaining_pairs, pc, canonVars, batchVars>>

\* app.py:484-485: a turn of the while loop that skips the cell
ScanSkip ==
    /\ spc = "scan"
    /\ scan_i <= Len(row_data)
    /\ ~(looks_like_label(row_data[scan_i]) /\ scan_i + 1 <= Len(row_data))
    /\ scan_i' = scan_i + 1
    /\ UNCHANGED <<row_full, row_data, scan_log, spc, recordVars, canonVars,
                   batchVars>>

\* app.py:459: the while loop ends
ScanEnd ==
    /\ spc = "scan"
    /\ scan_i > Len(row_data)
    /\ spc' = "done"
    /\ UNCHANGED <<row_full, row_data, scan_i, scan_log, recordVars, canonVars,
                   batchVars>>

\* The cells of the scanned columns: two labels, the label of an image
\* field, a link, a text with a line break, an empty cell.
ScanCells ==
    { Str(<<"Lote", ":">>),
      Str(<<" ", "Cidade", "?">>),
      Str(<<"Assinatura", " ", "do", " ", "produtor", " ", "ou", " ",
            "responsável", ":">>),
      Str(<<"http", ":", "//x">>),
      Str(<<"x", "\n">>),
      NaN }

\* The nine cells before column J; the ninth is the user's name.
LeadingCells == [c \in 1..9 |-> IF c = 9 THEN Str(<<"Ana">>) ELSE NaN]

InitScan ==
    /\ \E cells \in SeqsUpTo(ScanCells, MaxCells) : row_full = LeadingCells \o cells
    /\ row_data = <<>>
    /\ scan_i = 1
    /\ scan_log = <<>>
    /\ spc = "user"
    /\ IdleCanon
    /\ IdleRecord
    /\ IdleBatch

NextScan == UserName \/ ScanPair \/ ScanSkip \/ ScanEnd

SpecScan == InitScan /\ [][NextScan]_vars

(***************************************************************************)
(* Properties.                                                             *)
(***************************************************************************)
Min(s) == CHOOSE x \in s : \A y \in s : x <= y

RECURSIVE SumOver(_, _)
SumOver(f, s) ==
    IF s = {} THEN 0
    ELSE LET x == CHOOSE y \in s : TRUE IN f[x] + SumOver(f, s \ {x})

\* The places of the original pairs each bucket holds.
ProductConsumed == UNION {groups_log[k].used : k \in DOMAIN groups_log}

NamedConsumed == {calls[k].pos : k \in {j \in DOMAIN calls : calls[j].found}}

FinalResidual == {remaining_pairs[k].pos : k \in DOMAIN remaining_pairs}

\* C1: residual-pool conservation.  When the record is done, the pairs
\* consumed by the product groups, the pairs consumed by the named groups
\* and the pairs of the final residual add up to the original pairs, and
\* every original pair is in exactly one of the three.
C1_Conservation ==
    pc = "done" =>
        /\ SumOver([k \in DOMAIN groups_log |-> Cardinality(groups_log[k].used)],
                   DOMAIN groups_log)
             + Cardinality({j \in DOMAIN calls : calls[j].found})
             + Len(remaining_pairs) = Len(pairs)
        /\ ProductConsumed \cup NamedConsumed \cup FinalResidual = DOMAIN pairs
        /\ ProductConsumed \cap NamedConsumed = {}
        /\ ProductConsumed \cap FinalResidual = {}
        /\ NamedConsumed \cap FinalResidual = {}

C1_Witness ==
    /\ pc = "done"
    /\ ProductConsumed # {}
    /\ NamedConsumed # {}
    /\ FinalResidual # {}
    /\ \E k \in DOMAIN groups_log : Cardinality(groups_log[k].used) >= 2

\* The values the claim calls blank, and those it does not, among the
\* values of the model.
ClaimBlankValues ==
    { None, NaN, Str(<<>>), Str(<<" ", " ">>), Str(<<"-">>),
      Str(<<" ", "N/A", " ">>), Str(<<"na">>), Str(<<"NULL">>), Str(<<"None">>) }

ClaimNonBlankValues == { Image, Str(<<"0">>), Str(<<"-", "1">>), Str(<<"X">>) }

\* C2: product-group retention.  The group of a processed anchor is
\* emitted if and only if one of its four fields is not blank; when all
\* four are blank, no group is emitted and none of the pairs the anchor
\* took is in the residual.
C2_Retention ==
    pc = "groups" =>
        \A k \in DOMAIN groups_log :
            LET e == groups_log[k]
                emitted == \E p \in DOMAIN products : products[p].pos = e.pos
                nonblank == \E f \in 1..4 : e.fields[f] \in ClaimNonBlankValues
            IN  /\ \A f \in 1..4 :
                      e.fields[f] \in ClaimBlankValues \cup ClaimNonBlankValues
                /\ e.fields[1] = pairs[e.pos].a
                /\ emitted <=> nonblank
                /\ ~nonblank =>
                      \A r \in DOMAIN rest : rest[r].pos \notin e.used

C2_Witness ==
    /\ pc = "groups"
    /\ \E k \in DOMAIN groups_log :
          /\ Cardinality(groups_log[k].used) >= 2
          /\ \A f \in 1..4 : groups_log[k].fields[f] \in ClaimBlankValues

\* The entries of the pool of call c that match its wanted label.
Matching(c) ==
    {k \in DOMAIN c.before :
        canonical_key(c.before[k].q) \in Range(synonyms_of(c.wanted))}

\* C3: a call of pop_first_matching removes no pair or one pair, the one
\* it returns; no pair is returned by two calls; and of two calls for the
\* same wanted label on a pool with exactly one matching entry, the first
\* returns that entry and the second returns (None, None).
C3_AtMostOne ==
    /\ \A k \in DOMAIN calls :
          LET c == calls[k]
              removed == DOMAIN c.before \ DOMAIN c.after
          IN  /\ DOMAIN c.after \subseteq DOMAIN c.before
              /\ \A x \in DOMAIN c.after : c.after[x] = c.before[x]
              /\ IF c.found
                 THEN \E x \in removed :
                          /\ removed = {x}
                          /\ c.before[x].pos = c.pos
                          /\ c.before[x].a = c.a
                 ELSE removed = {} /\ c.a = None
    /\ \A i, j \in DOMAIN calls :
          i < j /\ calls[i].found /\ calls[j].found => calls[i].pos # calls[j].pos
    /\ \A i, j \in DOMAIN calls :
          /\ i < j
          /\ calls[i].wanted = calls[j].wanted
          /\ Cardinality(Matching(calls[i])) = 1
          => /\ calls[i].found
             /\ \A x \in Matching(calls[i]) : calls[i].before[x].pos = calls[i].pos
             /\ ~calls[j].found

C3_Witness ==
    \E i, j \in DOMAIN calls :
        /\ i < j
        /\ calls[i].wanted = calls[j].wanted
        /\ Cardinality(Matching(calls[i])) = 1
        /\ calls[i].found
        /\ ~calls[j].found

\* C6: the product groups are in ascending order of their index n,
\* whatever the order of the anchors in the row.
C6_Ascending ==
    pc = "groups" =>
        \A i, j \in DOMAIN products : i < j => products[i].n <= products[j].n

C6_Witness ==
    /\ pc = "groups"
    /\ \E i, j \in DOMAIN products :
          i < j /\ products[i].n < products[j].n /\ products[i].pos > products[j].pos

\* The place in calls of the call for label l of group k.
CallOf(k, l) == SumOver([j \in 1..Len(GROUPS) |-> Len(GROUPS[j])], 1..(k - 1)) + l

\* C7: a named group is never dropped.  Every group rendered so far has
\* its block, with one slot per label in the group's order; the slot of a
\* label that was not found holds the placeholder, the slot of a resolved
\* label holds the value of the pair removed from the pool for it.
C7_NeverDropped ==
    pc \in {"groups", "done"} =>
        /\ Len(story) = g
        /\ \A k \in 1..g :
              /\ ~story[k].none
              /\ story[k].top = GROUPS[k]
              /\ DOMAIN story[k].bottom = DOMAIN GROUPS[k]
              /\ \A l \in DOMAIN GROUPS[k] :
                    LET c == calls[CallOf(k, l)]
                        removed == DOMAIN c.before \ DOMAIN c.after
                    IN  /\ c.wanted = GROUPS[k][l]
                        /\ IF c.found
                           THEN \E x \in removed :
                                    story[k].bottom[l] = c.before[x].a
                           ELSE story[k].bottom[l] = MissingPlaceholder

C7_Witness ==
    /\ pc = "done"
    /\ \E k \in 1..g : \A l \in DOMAIN GROUPS[k] : ~calls[CallOf(k, l)].found
    /\ \E k \in 1..g : \E l \in DOMAIN GROUPS[k] :
          /\ calls[CallOf(k, l)].found
          /\ story[k].bottom[l] = Str(<<"a">>)

\* The places of the anchors in the pair list.
AnchorPlaces == {i \in DOMAIN pairs : is_anchor(pairs[i].q)}

\* The anchors that were processed: those that opened a group scan.
ProcessedAnchors == {groups_log[k].pos : k \in DOMAIN groups_log}

\* C9 as stated: only the first max_products anchors in row order are
\* processed; every later anchor stays in the residual pool.
C9_FirstAnchorsOnly ==
    pc = "groups" =>
        \A i \in AnchorPlaces :
            LET rank == Cardinality({j \in AnchorPlaces : j <= i})
            IN  /\ i \in ProcessedAnchors <=> rank <= max_products
                /\ i \notin ProcessedAnchors =>
                      \E r \in DOMAIN rest : rest[r].pos = i

\* C9 as amended: an anchor is processed if and only if fewer than
\* max_products groups have been emitted for the anchors before it (a
\* group discarded as blank does not count); at most max_products groups
\* are emitted; an anchor that is not processed stays in the residual
\* pool, in no group and not discarded.
C9_EmittedGroupsBound ==
    pc = "groups" =>
        /\ Len(products) <= max_products
        /\ ProcessedAnchors \subseteq AnchorPlaces
        /\ \A i \in AnchorPlaces :
              LET before == {p \in DOMAIN products : products[p].pos < i}
              IN  /\ i \in ProcessedAnchors <=> Cardinality(before) < max_products
                  /\ i \notin ProcessedAnchors =>
                        /\ \E r \in DOMAIN rest : rest[r] = pairs[i]
                        /\ i \notin used_idx
                        /\ \A p \in DOMAIN products : products[p].pos # i

C9_Witness ==
    /\ pc = "groups"
    /\ AnchorPlaces \ ProcessedAnchors # {}
    /\ Cardinality(ProcessedAnchors) > max_products

\* C10: the variants of the wanted label are tried in the table's order;
\* for the first variant that has a pair in the pool, the call returns the
\* pair earliest in the original order among those with that key, also
\* when a pair that matches a later variant comes earlier in the row.
C10_VariantOrderFifo ==
    \A k \in DOMAIN calls :
        LET c == calls[k]
            syns == synonyms_of(c.wanted)
            hits(v) == {x \in DOMAIN c.before : canonical_key(c.before[x].q) = v}
            live == {m \in DOMAIN syns : hits(syns[m]) # {}}
        IN  IF live = {} THEN ~c.found
            ELSE /\ c.found
                 /\ c.pos = Min({c.before[x].pos : x \in hits(syns[Min(live)])})

C10_Witness ==
    /\ \E k \in DOMAIN calls :
          /\ calls[k].found
          /\ \E x \in Matching(calls[k]) : calls[k].before[x].pos < calls[k].pos
    /\ \E k \in DOMAIN calls :
          /\ calls[k].found
          /\ calls[k].wanted = <<"Obs">>

\* C4: canonical_key is idempotent.
C4_Idempotent == cpc \in {"rekeyed", "done"} => rekey = key

\* C5: canonical_key is terminator-agnostic: a label that does not end in
\* ":" or "?" has the key of the label with "?" added and of the label
\* with ":" added.
C5_TerminatorAgnostic ==
    cpc = "done" /\ (label = <<>> \/ label[Len(label)] \notin {":", "?"})
        => key_q = key /\ key_c = key


\* The id cell of data row k is absent or blank.
IdBlank(k) ==
    \/ Len(rows[k]) < 5
    \/ rows[k][5].t \in {"none", "nan"}
    \/ rows[k][5].t = "str" /\ strip(rows[k][5].s) = <<>>

\* C8: one rendered document per input record.  After the batch the
\* output holds as many documents as there are records, the document of
\* every record among them, each named from the record's id cell, or by
\* its position when the id cell is absent or blank.
C8_OneDocumentPerRecord ==
    bpc = "done" =>
        /\ Len(archive) = Len(rows)
        /\ \A k \in DOMAIN rows : \E m \in DOMAIN archive : archive[m].doc = k
        /\ \A k \in DOMAIN rows :
              archive[k].name =
                  <<"relatorio_">>
                  \o (IF IdBlank(k) THEN <<"registro_">> \o decimal(k)
                      ELSE normalize_value(rows[k][5]))
                  \o <<".pdf">>


\* The places of row_data a pair of the scan read.
PairedPlaces ==
    UNION {{scan_log[k].label_at, scan_log[k].value_at} : k \in DOMAIN scan_log}

\* C11: the pairs of a row are those of the greedy left-to-right scan.  Every
\* pair is a label-looking cell and the cell right after it, holding the
\* normalised label and the cleaned value (or its image); the pairs are in
\* row order and no cell is in two of them, so a cell taken as a value is
\* never taken as a label; a cell the scan passed without pairing does not
\* look like a label or is the last cell; and the scan ends past the row.
C11_GreedyPairScan ==
    spc \in {"scan", "done"} =>
        /\ Len(pairs) = Len(scan_log) + 1
        /\ \A k \in DOMAIN scan_log :
              /\ scan_log[k].value_at = scan_log[k].label_at + 1
              /\ scan_log[k].value_at <= Len(row_data)
              /\ scan_log[k].value_at < scan_i
              /\ looks_like_label(row_data[scan_log[k].label_at])
              /\ pairs[k + 1].q = normalize_value(row_data[scan_log[k].label_at])
              /\ pairs[k + 1].a \in
                    pair_values(pairs[k + 1].q,
                                clean_value(row_data[scan_log[k].value_at]))
        /\ \A k \in DOMAIN scan_log : \A l \in DOMAIN scan_log :
              k < l => scan_log[k].value_at < scan_log[l].label_at
        /\ \A j \in DOMAIN row_data :
              (j < scan_i /\ j \notin PairedPlaces) =>
                  (~looks_like_label(row_data[j]) \/ j = Len(row_data))
        /\ (spc = "done" => scan_i > Len(row_data))

\* C11 witness: the scan ended on a row where a label-looking cell was
\* taken as a value with a cell after it, and the last cell looks like a
\* label and is in no pair.
C11_Witness ==
    /\ spc = "done"
    /\ \E k \in DOMAIN scan_log :
          /\ looks_like_label(row_data[scan_log[k].value_at])
          /\ scan_log[k].value_at < Len(row_data)
    /\ row_data # <<>>
    /\ looks_like_label(row_data[Len(row_data)])
    /\ Len(row_data) \notin PairedPlaces

\* The answer an emitted group shows for a collected value.
Shown(v) ==
    IF v.t = "img" THEN v
    ELSE IF is_blank_value(v) THEN Str(<<"-">>)
    ELSE Str(strip(py_str(v)))

\* The places of the run of the anchor at place p: after it, up to the next
\* anchor.
RunOf(p) ==
    {j \in DOMAIN pairs :
        p < j /\ \A m \in DOMAIN pairs : (p < m /\ m <= j) => ~is_anchor(pairs[m].q)}

\* The places of the run of the anchor at p whose label is sub-field l.
FieldPlaces(p, n, l) == {j \in RunOf(p) : strip(pairs[j].q) = expected_labels(n)[l]}

Max(s) == CHOOSE x \in s : \A y \in s : y <= x

\* The log entries whose group was emitted.
Emitted == {k \in DOMAIN groups_log : groups_log[k].emitted}

\* C12 as claimed: when two anchors of one index occur in a row the output
\* holds a single group for that index: no two emitted groups share an
\* index.
C12_SingleGroupPerIndex ==
    pc = "groups" =>
        \A i, j \in DOMAIN products : i # j => products[i].n # products[j].n

\* C12 as amended: every processed anchor collects into a map of its own.
\* The output holds one group per anchor whose group was emitted, with the
\* index of that anchor and the values collected in that anchor's own run,
\* so two anchors of one index can give two groups, which stay in row
\* order; the last value wins only for a sub-field label repeated within
\* one run.
C12_GroupPerAnchor ==
    pc = "groups" =>
        /\ Len(products) = Cardinality(Emitted)
        /\ \A k \in Emitted :
              \E i \in DOMAIN products :
                 /\ products[i].pos = groups_log[k].pos
                 /\ products[i].n = groups_log[k].n
                 /\ \A l \in 1..4 :
                       products[i].items[l].a = Shown(groups_log[k].fields[l])
        /\ \A i, j \in DOMAIN products :
              (i < j /\ products[i].n = products[j].n)
              => products[i].pos < products[j].pos
        /\ \A k \in DOMAIN groups_log :
              /\ groups_log[k].fields[1] = pairs[groups_log[k].pos].a
              /\ \A l \in 2..4 :
                    groups_log[k].fields[l] =
                        IF FieldPlaces(groups_log[k].pos, groups_log[k].n, l) = {}
                        THEN None
                        ELSE pairs[Max(FieldPlaces(groups_log[k].pos,
                                                   groups_log[k].n, l))].a

\* C12 witness: two anchors of one index were both processed and emitted,
\* and the two groups of that index show different values.
C12_Witness ==
    /\ pc = "groups"
    /\ \E i, j \in DOMAIN products :
          /\ i < j
          /\ products[i].n = products[j].n
          /\ products[i].items # products[j].items

=========================================================================
